---- MODULE Spec2Model ----
(***************************************************************************)
(* A model of the trust report of skexplain (src/skexplain/report/trust.py) *)
(* and of the extraction / pruning operations its callers use               *)
(* (src/examples/classification.py).                                        *)
(*                                                                          *)
(*   Spec        a decision tree is induced node by node, analysed by       *)
(*               get_dt_info and pruned to its top-k branches               *)
(*   SpecReport  one call of trust_report: argument check, data split,      *)
(*               first extraction, feature-ablation loop                    *)
(*   SpecFit     one call of the extraction engine's fit, then explain      *)
(***************************************************************************)
EXTENDS Integers, Sequences, FiniteSets, TLC

VARIABLES
    \* ---- tree analysis (Spec)
    tpc,            \* "idle" | "grow" | "analyzed" | "pruned" | "ConfigError"
    dt,             \* the decision tree (sklearn tree_ node arrays)
    info,           \* result of get_dt_info(dt), NoInfo before the call
    top_k,          \* argument of the last prune call (0 before)
    pruned,         \* result of prune(dt, top_k), dt before the call
    \* ---- extraction engine (SpecFit)
    fpc,            \* "idle" | "running" | "fitted" | "explained" | "ConfigError" | "NoCandidateError"
    num_iterations, \* argument of fit
    outcome,        \* per iteration: the reward its candidate scores, or OracleRaises
    pending,        \* iterations not yet completed
    history,        \* the ExtractionResults appended so far
    best,           \* the shared best-result accumulator, NoResult while empty
    explained,      \* what explain() returned, NoResult before
    \* ---- trust_report (SpecReport)
    rpc,            \* "idle" | "check" | "split" | "first_fit" | "loop" | "returned" | "raised"
    err,            \* the exception trust_report raised, "none" while it has not
    given,          \* which of X, y, X_train, X_test, y_train, y_test the caller passed (not None)
    kind,           \* type of the caller's feature data: "DataFrame" | "ndarray" | "Tensor"
    logger,         \* whether a logger was passed
    max_iter,       \* argument max_iter
    caller_data,    \* the contents of the caller's X, X_train, X_test at the call
    heap,           \* the contents of every feature matrix now, by object
    X_train,        \* the object local X_train refers to, "None" if none
    X_test,         \* the object local X_test refers to, "None" if none
    y_train,        \* whether local y_train is not None
    y_test,         \* whether local y_test is not None
    first_dt,       \* the tree of the first extraction
    it,             \* loop counter
    n_features_removed,
    top_feature_to_remove,  \* -1 before line 264
    whitebox_iter   \* the ablation records

treeVars == <<tpc, dt, info, top_k, pruned>>

fitVars == <<fpc, num_iterations, outcome, pending, history, best, explained>>

reportVars == <<rpc, err, given, kind, logger, max_iter, caller_data, heap,
                X_train, X_test, y_train, y_test, first_dt, it,
                n_features_removed, top_feature_to_remove, whitebox_iter>>

vars == <<tpc, dt, info, top_k, pruned,
          fpc, num_iterations, outcome, pending, history, best, explained,
          rpc, err, given, kind, logger, max_iter, caller_data, heap,
          X_train, X_test, y_train, y_test, first_dt, it,
          n_features_removed, top_feature_to_remove, whitebox_iter>>

-----------------------------------------------------------------------------
(* Bounds of the model *)

\* largest number of samples at the root of an induced tree
MaxRootSamples == 3
\* number of features (columns) of the dataset, features are 0..NumFeatures-1
NumFeatures == 2
\* thresholds of a split are 1..MaxThreshold
MaxThreshold == 1

\* largest num_iterations of a fit
MaxIterations == 3
\* rewards are 0..MaxReward (fidelity scores, scaled to integers)
MaxReward == 2

\* number of columns of the dataset handed to trust_report
ReportFeatures == 2
\* largest max_iter of a trust_report call
MaxIter == 3

\* trust_report's default top_n
top_n == 10

\* sklearn's markers of a leaf: children are TREE_LEAF, feature and threshold
\* are TREE_UNDEFINED
TREE_LEAF == -1
TREE_UNDEFINED == -2

Features == 0 .. (NumFeatures - 1)
Thresholds == 1 .. MaxThreshold
\* class vectors have two classes: values[node][0] == <<count of class 0, count of class 1>>
ClassVectors == {v \in (0 .. MaxRootSamples) \X (0 .. MaxRootSamples) :
                    v[1] + v[2] >= 1 /\ v[1] + v[2] <= MaxRootSamples}

-----------------------------------------------------------------------------
(* Helpers over sequences and vectors *)

RECURSIVE SumSeq(_)
SumSeq(s) == IF s = <<>> THEN 0 ELSE Head(s) + SumSeq(Tail(s))

RECURSIVE SumOver(_, _)
\* sum of f[i] for i in the finite set S
SumOver(f, S) ==
    IF S = {} THEN 0
    ELSE LET i == CHOOSE j \in S : TRUE IN f[i] + SumOver(f, S \ {i})

\* np.sum of a class vector
VecSum(v) == v[1] + v[2]

\* np.argmax: index (0-based) of the first maximal entry
ArgMax(v) == IF v[1] >= v[2] THEN 0 ELSE 1

\* gini impurity of a class vector as the fraction <<numerator, denominator>>
Gini(v) == <<2 * v[1] * v[2], VecSum(v) * VecSum(v)>>

-----------------------------------------------------------------------------
(* The tree: sklearn's tree_ arrays, nodes 0..node_count-1, root 0 *)

Nodes(t) == 0 .. (t.node_count - 1)

\* a tree that is one leaf holding class vector v
LeafTree(v) ==
    [node_count     |-> 1,
     children_left  |-> [i \in {0} |-> TREE_LEAF],
     children_right |-> [i \in {0} |-> TREE_LEAF],
     feature        |-> [i \in {0} |-> TREE_UNDEFINED],
     threshold      |-> [i \in {0} |-> TREE_UNDEFINED],
     value          |-> [i \in {0} |-> v],
     n_node_samples |-> [i \in {0} |-> VecSum(v)],
     impurity       |-> [i \in {0} |-> Gini(v)]]

IsLeaf(t, node) == t.children_left[node] = t.children_right[node]

Leaves(t) == {i \in Nodes(t) : IsLeaf(t, i)}
Internal(t) == {i \in Nodes(t) : ~IsLeaf(t, i)}

\* the tree learner turns leaf `leaf` into a test feature <= threshold, sending
\* class vector lv to a new left child and the rest to a new right child
SplitLeaf(t, leaf, f, th, lv) ==
    LET n  == t.node_count
        l  == n
        r  == n + 1
        rv == <<t.value[leaf][1] - lv[1], t.value[leaf][2] - lv[2]>>
        D  == 0 .. (n + 1)
    IN [node_count     |-> n + 2,
        children_left  |-> [i \in D |-> IF i = leaf THEN l
                                        ELSE IF i < n THEN t.children_left[i] ELSE TREE_LEAF],
        children_right |-> [i \in D |-> IF i = leaf THEN r
                                        ELSE IF i < n THEN t.children_right[i] ELSE TREE_LEAF],
        feature        |-> [i \in D |-> IF i = leaf THEN f
                                        ELSE IF i < n THEN t.feature[i] ELSE TREE_UNDEFINED],
        threshold      |-> [i \in D |-> IF i = leaf THEN th
                                        ELSE IF i < n THEN t.threshold[i] ELSE TREE_UNDEFINED],
        value          |-> [i \in D |-> IF i < n THEN t.value[i]
                                        ELSE IF i = l THEN lv ELSE rv],
        n_node_samples |-> [i \in D |-> IF i < n THEN t.n_node_samples[i]
                                        ELSE IF i = l THEN VecSum(lv) ELSE VecSum(rv)],
        impurity       |-> [i \in D |-> IF i < n THEN t.impurity[i]
                                        ELSE IF i = l THEN Gini(lv) ELSE Gini(rv)]]

\* the class vectors a leaf holding v can send to its left child: both children
\* receive at least one sample
LeftParts(v) == {lv \in ClassVectors :
                    /\ lv[1] <= v[1] /\ lv[2] <= v[2]
                    /\ VecSum(lv) < VecSum(v)}

-----------------------------------------------------------------------------
(* get_dt_info *)

NoInfo == [features_used |-> <<>>, splits |-> <<>>, branches |-> <<>>, samples_sum |-> -1]

\* features_used is a Python dict: the entries in insertion order
HasKey(fu, f) == \E i \in 1 .. Len(fu) : fu[i].feature = f
KeyIndex(fu, f) == CHOOSE i \in 1 .. Len(fu) : fu[i].feature = f

\* UseFeature storing the node's sample count instead of adding it
UseFeature_overwrite(fu, f, s) ==
    LET fu0 == IF HasKey(fu, f) THEN fu
               ELSE Append(fu, [feature |-> f, count |-> 0, samples |-> 0])
        k   == KeyIndex(fu0, f)
    IN [fu0 EXCEPT ![k].count = @ + 1, ![k].samples = s]

\* lines 77-81: setdefault {"count": 0, "samples": 0}, then count += 1 and
\* samples += samples[node]
UseFeature(fu, f, s) ==
    LET fu0 == IF HasKey(fu, f) THEN fu
               ELSE Append(fu, [feature |-> f, count |-> 0, samples |-> 0])
        k   == KeyIndex(fu0, f)
    IN [fu0 EXCEPT ![k].count = @ + 1, ![k].samples = @ + s]

\* BranchOf reading the sample count of the root instead of the leaf's
BranchOf_root_samples(t, node, path) ==
    LET node_class == ArgMax(t.value[node])
    IN [path    |-> path,
        class   |-> node_class,
        prob    |-> <<t.value[node][node_class + 1] * 100, VecSum(t.value[node])>>,
        samples |-> t.n_node_samples[0]]

\* lines 62-69: the branch recorded at a leaf
BranchOf(t, node, path) ==
    LET node_class == ArgMax(t.value[node])
    IN [path    |-> path,
        class   |-> node_class,
        prob    |-> <<t.value[node][node_class + 1] * 100, VecSum(t.value[node])>>,
        samples |-> t.n_node_samples[node]]

\* lines 83-94: the split recorded at an internal node
SplitOf(t, node) ==
    LET left  == t.children_left[node]
        right == t.children_right[node]
    IN [idx        |-> node,
        feature    |-> t.feature[node],
        threshold  |-> t.threshold[node],
        samples    |-> t.n_node_samples[node],
        values     |-> t.value[node],
        gini_split |-> <<t.impurity[left], t.impurity[right]>>,
        data_split |-> <<VecSum(t.value[left]), VecSum(t.value[right])>>,
        data_split_by_class |-> <<<<t.value[left][1], t.value[right][1]>>,
                                  <<t.value[left][2], t.value[right][2]>>>>]

RECURSIVE walk_tree_right_first(_, _, _, _)
\* walk_tree descending into the right child before the left child
walk_tree_right_first(t, node, path, st) ==
    IF t.children_left[node] = t.children_right[node]
    THEN [st EXCEPT !.branches = Append(@, BranchOf(t, node, path))]
    ELSE LET feature   == t.feature[node]
             threshold == t.threshold[node]
             left      == t.children_left[node]
             right     == t.children_right[node]
             st1 == [st EXCEPT
                        !.features_used = UseFeature(@, feature, t.n_node_samples[node]),
                        !.splits = Append(@, SplitOf(t, node))]
             stR == walk_tree_right_first(t, right, Append(path, <<feature, ">", threshold>>), st1)
         IN walk_tree_right_first(t, left, Append(path, <<feature, "<=", threshold>>), stR)

RECURSIVE walk_tree_eager(_, _, _, _)
\* walk_tree counting the node's feature before testing whether it is a leaf
walk_tree_eager(t, node, path, st) ==
    LET feature   == t.feature[node]
        threshold == t.threshold[node]
        left      == t.children_left[node]
        right     == t.children_right[node]
        stF == [st EXCEPT !.features_used = UseFeature(@, feature, t.n_node_samples[node])]
    IN IF left = right
       THEN [stF EXCEPT !.branches = Append(@, BranchOf(t, node, path))]
       ELSE LET st1 == [stF EXCEPT !.splits = Append(@, SplitOf(t, node))]
                stL == walk_tree_eager(t, left, Append(path, <<feature, "<=", threshold>>), st1)
            IN walk_tree_eager(t, right, Append(path, <<feature, ">", threshold>>), stL)

RECURSIVE walk_tree(_, _, _, _)
\* lines 59-96; st carries the closure's splits and features_used and the
\* branches returned so far (the left subtree's before the right subtree's)
walk_tree(t, node, path, st) ==
    IF t.children_left[node] = t.children_right[node]
    THEN [st EXCEPT !.branches = Append(@, BranchOf(t, node, path))]
    ELSE LET feature   == t.feature[node]
             threshold == t.threshold[node]
             left      == t.children_left[node]
             right     == t.children_right[node]
             st1 == [st EXCEPT
                        !.features_used = UseFeature(@, feature, t.n_node_samples[node]),
                        !.splits = Append(@, SplitOf(t, node))]
             stL == walk_tree(t, left, Append(path, <<feature, "<=", threshold>>), st1)
         IN walk_tree(t, right, Append(path, <<feature, ">", threshold>>), stL)

\* samples_sum taken at the root only
samples_sum_root(t) == t.n_node_samples[0]

\* line 57: samples_sum = np.sum(samples)
samples_sum_of(t) == SumOver(t.n_node_samples, Nodes(t))

\* lines 45-99
get_dt_info(t) ==
    LET st == walk_tree(t, 0, <<>>,
                        [features_used |-> <<>>, splits |-> <<>>, branches |-> <<>>])
    IN [features_used |-> st.features_used,
        splits        |-> st.splits,
        branches      |-> st.branches,
        samples_sum   |-> samples_sum_of(t)]

-----------------------------------------------------------------------------
(* Pruner.prune(tree, top_k): keep the top-k branches by sample count *)

RECURSIVE FollowPath(_, _, _)
\* the node reached from `node` by the predicates of `path`, each of which must
\* be the test of the node it leaves (feature, threshold) with "<=" leading to
\* the left child and ">" to the right; -1 when a predicate does not match or
\* the path runs past a leaf
FollowPath(t, node, path) ==
    IF path = <<>> THEN node
    ELSE IF IsLeaf(t, node) THEN -1
    ELSE LET p == Head(path)
         IN IF p[1] = t.feature[node] /\ p[3] = t.threshold[node]
            THEN FollowPath(t, IF p[2] = "<=" THEN t.children_left[node]
                                ELSE t.children_right[node], Tail(path))
            ELSE -1

\* the leaf a branch of the analysis stands for
LeafOfBranch(t, b) == FollowPath(t, 0, b.path)

RECURSIVE Subtree(_, _)
\* the nodes of the subtree rooted at node
Subtree(t, node) ==
    IF IsLeaf(t, node) THEN {node}
    ELSE {node} \cup Subtree(t, t.children_left[node])
                \cup Subtree(t, t.children_right[node])

\* ranking of branches: by samples, descending, ties broken by the lower node index
RanksBefore(t, a, b) ==
    \/ a.samples > b.samples
    \/ a.samples = b.samples /\ LeafOfBranch(t, a) < LeafOfBranch(t, b)

\* the leaves of the k top-ranked branches
TopLeaves(t, branches, k) ==
    {LeafOfBranch(t, branches[i]) : i \in
        {i \in 1 .. Len(branches) :
            Cardinality({j \in 1 .. Len(branches) :
                            RanksBefore(t, branches[j], branches[i])}) < k}}

\* only the selected leaves are marked, not the nodes above them
KeptNodes_leaves_only(t, top) == top

\* every node on the root-to-leaf path of a selected leaf is kept
KeptNodes(t, top) == {x \in Nodes(t) : Subtree(t, x) \cap top # {}}

\* a node that is not kept is collapsed, with its subtree, into a leaf: the
\* nodes of the result are the kept nodes and the children of kept nodes
Retained(t, kept) ==
    {0} \cup kept \cup {x \in Nodes(t) : \E a \in kept :
                            ~IsLeaf(t, a) /\ x \in {t.children_left[a], t.children_right[a]}}

\* the pruned tree is a new tree: the retained nodes, renumbered in index order
Collapse(t, kept) ==
    LET ret    == Retained(t, kept)
        n      == Cardinality(ret)
        New(x) == Cardinality({y \in ret : y < x})
        Old(i) == CHOOSE x \in ret : New(x) = i
        Inner(x) == x \in kept /\ ~IsLeaf(t, x)
        D      == 0 .. (n - 1)
    IN [node_count     |-> n,
        children_left  |-> [i \in D |-> IF Inner(Old(i)) THEN New(t.children_left[Old(i)])
                                        ELSE TREE_LEAF],
        children_right |-> [i \in D |-> IF Inner(Old(i)) THEN New(t.children_right[Old(i)])
                                        ELSE TREE_LEAF],
        feature        |-> [i \in D |-> IF Inner(Old(i)) THEN t.feature[Old(i)]
                                        ELSE TREE_UNDEFINED],
        threshold      |-> [i \in D |-> IF Inner(Old(i)) THEN t.threshold[Old(i)]
                                        ELSE TREE_UNDEFINED],
        value          |-> [i \in D |-> t.value[Old(i)]],
        n_node_samples |-> [i \in D |-> t.n_node_samples[Old(i)]],
        impurity       |-> [i \in D |-> t.impurity[Old(i)]]]

\* top_k <= 0 or top_k above the number of leaves is a ConfigError
ValidTopK(t, k) == k >= 1 /\ k <= Cardinality(Leaves(t))

prune(t, k) ==
    LET branches == get_dt_info(t).branches
    IN Collapse(t, KeptNodes(t, TopLeaves(t, branches, k)))

-----------------------------------------------------------------------------
(* The state of trust_report before a call *)

ArgNames == {"X", "y", "X_train", "X_test", "y_train", "y_test"}

NoMatrix == <<>>

ReportIdle ==
    /\ rpc = "idle"
    /\ err = "none"
    /\ given = [a \in ArgNames |-> FALSE]
    /\ kind = "DataFrame"
    /\ logger = FALSE
    /\ max_iter = 0
    /\ caller_data = [o \in {"X", "X_train", "X_test"} |-> NoMatrix]
    /\ heap = [o \in {"X", "X_train", "X_test", "split_train", "split_test"} |-> NoMatrix]
    /\ X_train = "None"
    /\ X_test = "None"
    /\ y_train = FALSE
    /\ y_test = FALSE
    /\ first_dt = LeafTree(<<1, 0>>)
    /\ it = 0
    /\ n_features_removed = 0
    /\ top_feature_to_remove = -1
    /\ whitebox_iter = <<>>

-----------------------------------------------------------------------------
(* ExtractionEngine.fit and explain *)

\* the oracle's predict raises in this iteration
OracleRaises == -1
Rewards == 0 .. MaxReward
NoResult == [tree |-> -1, reward |-> -1, idx |-> -1]

FitIdle ==
    /\ fpc = "idle"
    /\ num_iterations = 0
    /\ outcome = <<>>
    /\ pending = {}
    /\ history = <<>>
    /\ best = NoResult
    /\ explained = NoResult

\* a result replaces the accumulator only when its reward is strictly higher:
\* among equal rewards the first to complete stays
Improves_first_completed(r, acc) == acc = NoResult \/ r.reward > acc.reward

\* the max-reduction into the accumulator: higher reward wins, equal rewards
\* are decided by the lower iteration index
Improves(r, acc) ==
    \/ acc = NoResult
    \/ r.reward > acc.reward
    \/ r.reward = acc.reward /\ r.idx < acc.idx

\* any failed iteration is fatal to fit
FitVerdict_any_failure(h, n) == IF Len(h) < n THEN "NoCandidateError" ELSE "fitted"

\* fit fails when no iteration produced a candidate
FitVerdict(h, n) == IF h = <<>> THEN "NoCandidateError" ELSE "fitted"

\* the idle tree analysis, for the specifications that do not use it
TreeIdle ==
    /\ tpc = "idle"
    /\ dt = LeafTree(<<1, 0>>)
    /\ info = NoInfo
    /\ top_k = 0
    /\ pruned = dt

\* fit(dataset, oracle, num_iterations, ...): the per-iteration draws and the
\* oracle's behaviour are fixed at the call
InitFit ==
    /\ TreeIdle
    /\ ReportIdle
    /\ num_iterations \in 0 .. MaxIterations
    /\ outcome \in [0 .. (num_iterations - 1) -> Rewards \cup {OracleRaises}]
    /\ fpc = IF num_iterations >= 1 THEN "running" ELSE "ConfigError"
    /\ pending = 0 .. (num_iterations - 1)
    /\ history = <<>>
    /\ best = NoResult
    /\ explained = NoResult

\* iteration i completes (iterations may run on a worker pool, in any order):
\* its oracle query raised and it is skipped, or its result is appended to the
\* history and reduced into the accumulator
CompleteIteration ==
    /\ fpc = "running"
    /\ \E i \in pending :
          /\ pending' = pending \ {i}
          /\ IF outcome[i] = OracleRaises
             THEN UNCHANGED <<history, best>>
             ELSE LET r == [tree |-> i, reward |-> outcome[i], idx |-> i]
                  IN /\ history' = Append(history, r)
                     /\ best' = IF Improves(r, best) THEN r ELSE best
    /\ UNCHANGED <<fpc, num_iterations, outcome, explained>>
    /\ UNCHANGED <<treeVars, reportVars>>

\* all iterations are over: fit returns the history or fails
FinishFit ==
    /\ fpc = "running"
    /\ pending = {}
    /\ fpc' = FitVerdict(history, num_iterations)
    /\ UNCHANGED <<num_iterations, outcome, pending, history, best, explained>>
    /\ UNCHANGED <<treeVars, reportVars>>

\* explain() returns the accumulated best result
Explain ==
    /\ fpc = "fitted"
    /\ explained' = best
    /\ fpc' = "explained"
    /\ UNCHANGED <<num_iterations, outcome, pending, history, best>>
    /\ UNCHANGED <<treeVars, reportVars>>

NextFit == CompleteIteration \/ FinishFit \/ Explain

SpecFit == InitFit /\ [][NextFit]_vars

-----------------------------------------------------------------------------
(* trust_report *)

Kinds == {"DataFrame", "ndarray", "Tensor"}
ReportCols == 0 .. (ReportFeatures - 1)

\* a column of the caller's table, rows 1 and 2 being the caller's training
\* rows and row 3 the caller's test row: a varying column or a constant one
ColPatterns == {<<1, 2, 1>>, <<1, 1, 1>>}

\* the table whose columns are cols[0], cols[1], ...
Table(cols) == [r \in 1 .. 3 |-> [f \in 1 .. ReportFeatures |-> cols[f - 1][r]]]

\* the rows rs (a sequence of row numbers) of matrix m, as a new matrix
TakeRows(m, rs) == [i \in 1 .. Len(rs) |-> m[rs[i]]]

\* X[:, f] = 0
ZeroColumn(m, f) == [r \in DOMAIN m |-> [m[r] EXCEPT ![f + 1] = 0]]

\* the columns of m in which not all rows agree: the only ones a tree induced
\* from m can split on
Usable(m) == {f \in ReportCols : \E r1, r2 \in DOMAIN m : m[r1][f + 1] # m[r2][f + 1]}

\* the class vector the tree learner sends left
LearnerLeft(v) == <<(v[1] + 1) \div 2, v[2] \div 2>>

\* the trees one more split away from the trees of S
Grow(S, usable) ==
    S \cup {SplitLeaf(t, leaf, f, 1, LearnerLeft(t.value[leaf])) :
                <<t, leaf, f>> \in
                    {x \in S \X (0 .. 2) \X usable :
                        /\ x[2] \in Leaves(x[1])
                        /\ VecSum(x[1].value[x[2]]) >= 2}}

\* one split of the tree learner
LearnerSplit(t, leaf, f) == SplitLeaf(t, leaf, f, 1, LearnerLeft(t.value[leaf]))

\* a deeper tree: the root tests f, both its children and one grandchild test
\* g, so that g routes more samples in total than f
DeepTree(f, g) ==
    LearnerSplit(LearnerSplit(LearnerSplit(LearnerSplit(LeafTree(<<4, 4>>), 0, f), 1, g), 2, g), 3, g)

\* the trees fit_and_explain may extract from training data m: a leaf, one
\* or two splits on usable columns, or a deeper tree on two usable columns
LearnedTrees(m) ==
    Grow(Grow({LeafTree(<<2, 2>>)}, Usable(m)), Usable(m))
        \cup {DeepTree(f, g) : <<f, g>> \in {x \in Usable(m) \X Usable(m) : x[1] # x[2]}}

\* the features in insertion order, not sorted by samples
TopFeatures_unsorted(fu) ==
    SubSeq(fu, 1, IF Len(fu) < top_n THEN Len(fu) ELSE top_n)

\* sorted(features.items(), key=samples, reverse=True)[:top_n]: a stable
\* sort, equal entries keep their insertion order
TopFeatures(fu) ==
    LET Pos(i) == 1 + Cardinality({j \in 1 .. Len(fu) :
                        \/ fu[j].samples > fu[i].samples
                        \/ fu[j].samples = fu[i].samples /\ j < i})
        sorted == [k \in 1 .. Len(fu) |-> fu[CHOOSE i \in 1 .. Len(fu) : Pos(i) = k]]
    IN SubSeq(sorted, 1, IF Len(sorted) < top_n THEN Len(sorted) ELSE top_n)

\* line 207
MissingArguments(g) ==
    \/ ~g["X"] /\ (~g["X_train"] \/ ~g["X_test"])
    \/ ~g["y"] /\ (~g["y_train"] \/ ~g["y_test"])

\* line 265
LoopGuard(i, removed) == i < max_iter /\ removed < ReportFeatures

\* the call trust_report(blackbox, X, y, X_train, X_test, y_train, y_test,
\* max_iter, logger): the caller holds one table, X is all of it, X_train its
\* first two rows and X_test its last row
InitReport ==
    /\ TreeIdle
    /\ FitIdle
    /\ rpc = "check"
    /\ err = "none"
    /\ given \in [ArgNames -> BOOLEAN]
    /\ kind \in Kinds
    /\ logger \in BOOLEAN
    /\ max_iter \in 0 .. MaxIter
    /\ \E cols \in [ReportCols -> ColPatterns] :
          caller_data = [o \in {"X", "X_train", "X_test"} |->
                            IF ~given[o] THEN NoMatrix
                            ELSE IF o = "X" THEN Table(cols)
                            ELSE IF o = "X_train" THEN TakeRows(Table(cols), <<1, 2>>)
                            ELSE TakeRows(Table(cols), <<3>>)]
    /\ heap = [o \in {"X", "X_train", "X_test", "split_train", "split_test"} |->
                    IF o \in DOMAIN caller_data THEN caller_data[o] ELSE NoMatrix]
    /\ X_train = IF given["X_train"] THEN "X_train" ELSE "None"
    /\ X_test = IF given["X_test"] THEN "X_test" ELSE "None"
    /\ y_train = given["y_train"]
    /\ y_test = given["y_test"]
    /\ first_dt = LeafTree(<<1, 0>>)
    /\ it = 0
    /\ n_features_removed = 0
    /\ top_feature_to_remove = -1
    /\ whitebox_iter = <<>>

Raise(e) == rpc' = "raised" /\ err' = e

\* lines 207-208
CheckArguments ==
    /\ rpc = "check"
    /\ IF MissingArguments(given)
       THEN Raise("ValueError")
       ELSE rpc' = "split" /\ err' = err
    /\ UNCHANGED <<given, kind, logger, max_iter, caller_data, heap, X_train, X_test,
                   y_train, y_test, first_dt, it, n_features_removed,
                   top_feature_to_remove, whitebox_iter>>
    /\ UNCHANGED <<treeVars, fitVars>>

\* lines 210-221: without X_train the rows of X are split at random, two rows
\* for training and one for testing, into new objects; then the sizes are taken
SplitData ==
    /\ rpc = "split"
    /\ IF X_train = "None"
       THEN \/ /\ ~given["y"]
               \* train_test_split(X_indexes, None) or len(y) fails
               /\ Raise("TypeError")
               /\ UNCHANGED <<heap, X_train, X_test, y_train, y_test>>
            \/ /\ kind # "DataFrame"
               \* X.iloc on an array or a tensor (reached with y = None only
               \* if train_test_split let None through)
               /\ Raise("AttributeError")
               /\ UNCHANGED <<heap, X_train, X_test, y_train, y_test>>
            \/ /\ given["y"] /\ kind = "DataFrame"
               /\ \E rs \in {<<1, 2>>, <<2, 1>>, <<1, 3>>, <<3, 1>>, <<2, 3>>, <<3, 2>>} :
                    \E r3 \in (1 .. 3) \ {rs[1], rs[2]} :
                        heap' = [heap EXCEPT !["split_train"] = TakeRows(heap["X"], rs),
                                             !["split_test"] = TakeRows(heap["X"], <<r3>>)]
               /\ X_train' = "split_train"
               /\ X_test' = "split_test"
               /\ y_train' = TRUE
               /\ y_test' = TRUE
               /\ rpc' = "first_fit" /\ err' = err
       ELSE /\ IF X_test = "None"
               \* len(X_test) at line 220
               THEN Raise("TypeError")
               ELSE rpc' = "first_fit" /\ err' = err
            /\ UNCHANGED <<heap, X_train, X_test, y_train, y_test>>
    /\ UNCHANGED <<given, kind, logger, max_iter, caller_data, first_dt, it,
                   n_features_removed, top_feature_to_remove, whitebox_iter>>
    /\ UNCHANGED <<treeVars, fitVars>>

\* fit_and_explain (lines 102-180) fails: the blackbox cannot be fitted to
\* y_train = None (line 141), classification_report rejects y_test = None
\* (line 145), logger.log is read off logger = None (line 162)
FitFailure ==
    IF ~y_train \/ ~y_test THEN "FitError"
    ELSE IF ~logger THEN "AttributeError"
    ELSE "none"

\* lines 231-264: the first extraction, its analysis, the first feature to remove
FirstFit ==
    /\ rpc = "first_fit"
    /\ IF FitFailure # "none"
       THEN /\ Raise(FitFailure)
            /\ UNCHANGED <<first_dt, top_feature_to_remove>>
       ELSE \E t \in LearnedTrees(heap[X_train]) :
               LET first_dt_top_features == TopFeatures(get_dt_info(t).features_used)
               IN /\ first_dt' = t
                  /\ IF first_dt_top_features = <<>>
                     \* first_dt_top_features[0] at line 264
                     THEN Raise("IndexError") /\ UNCHANGED top_feature_to_remove
                     ELSE /\ top_feature_to_remove' = first_dt_top_features[1].feature
                          /\ rpc' = "loop" /\ err' = err
    /\ UNCHANGED <<given, kind, logger, max_iter, caller_data, heap, X_train, X_test,
                   y_train, y_test, it, n_features_removed, whitebox_iter>>
    /\ UNCHANGED <<treeVars, fitVars>>

\* lines 265-314: one round of the ablation loop
AblationRound ==
    /\ rpc = "loop"
    /\ LoopGuard(it, n_features_removed)
    /\ LET zeroed == [heap EXCEPT ![X_train] = ZeroColumn(@, top_feature_to_remove),
                                  ![X_test] = ZeroColumn(@, top_feature_to_remove)]
       IN /\ heap' = zeroed
          /\ n_features_removed' = n_features_removed + 1
          /\ \E t \in LearnedTrees(zeroed[X_train]) :
                LET iter_dt_top_features == TopFeatures(get_dt_info(t).features_used)
                IN /\ whitebox_iter' = Append(whitebox_iter,
                            [it |-> it, dt |-> t,
                             feature_removed |-> top_feature_to_remove,
                             n_features_removed |-> n_features_removed + 1])
                   /\ IF iter_dt_top_features = <<>>
                      \* iter_dt_top_features[0] at line 313
                      THEN Raise("IndexError") /\ UNCHANGED <<top_feature_to_remove, it>>
                      ELSE /\ top_feature_to_remove' = iter_dt_top_features[1].feature
                           /\ it' = it + 1
                           /\ UNCHANGED <<rpc, err>>
    /\ UNCHANGED <<given, kind, logger, max_iter, caller_data, X_train, X_test,
                   y_train, y_test, first_dt>>
    /\ UNCHANGED <<treeVars, fitVars>>

\* lines 316-507: the loop is over, the report is rendered and logged
Report ==
    /\ rpc = "loop"
    /\ ~LoopGuard(it, n_features_removed)
    /\ rpc' = "returned"
    /\ UNCHANGED <<err, given, kind, logger, max_iter, caller_data, heap, X_train, X_test,
                   y_train, y_test, first_dt, it, n_features_removed,
                   top_feature_to_remove, whitebox_iter>>
    /\ UNCHANGED <<treeVars, fitVars>>

NextReport == CheckArguments \/ SplitData \/ FirstFit \/ AblationRound \/ Report

SpecReport == InitReport /\ [][NextReport]_vars

-----------------------------------------------------------------------------
(* Spec: induce a tree, analyse it, prune it *)

InitTree ==
    /\ tpc = "grow"
    /\ \E v \in ClassVectors : dt = LeafTree(v)
    /\ info = NoInfo
    /\ top_k = 0
    /\ pruned = dt
    /\ FitIdle
    /\ ReportIdle

\* the tree learner splits one more leaf
Split ==
    /\ tpc = "grow"
    /\ \E leaf \in Leaves(dt), f \in Features, th \in Thresholds :
         \E lv \in LeftParts(dt.value[leaf]) :
            dt' = SplitLeaf(dt, leaf, f, th, lv)
    /\ pruned' = dt'
    /\ UNCHANGED <<tpc, info, top_k>>
    /\ UNCHANGED <<fitVars, reportVars>>

\* get_dt_info(dt) on the fitted tree
Analyze ==
    /\ tpc = "grow"
    /\ info' = get_dt_info(dt)
    /\ tpc' = "analyzed"
    /\ UNCHANGED <<dt, top_k, pruned>>
    /\ UNCHANGED <<fitVars, reportVars>>

\* prune(dt, top_k = k)
Prune ==
    /\ tpc = "analyzed"
    /\ \E k \in 0 .. (Cardinality(Leaves(dt)) + 1) :
          /\ top_k' = k
          /\ IF ValidTopK(dt, k)
             THEN pruned' = prune(dt, k) /\ tpc' = "pruned"
             ELSE pruned' = pruned /\ tpc' = "ConfigError"
    /\ UNCHANGED <<dt, info>>
    /\ UNCHANGED <<fitVars, reportVars>>

Init == InitTree

Next == Split \/ Analyze \/ Prune

Spec == Init /\ [][Next]_vars

-----------------------------------------------------------------------------
(* Tree structure, read off the children arrays (used to state the claims) *)

IsChild(t, x, a) == ~IsLeaf(t, a) /\ x \in {t.children_left[a], t.children_right[a]}
ParentOf(t, x) == CHOOSE a \in Nodes(t) : IsChild(t, x, a)

RECURSIVE Depth(_, _)
Depth(t, x) == IF x = 0 THEN 0 ELSE 1 + Depth(t, ParentOf(t, x))

RECURSIVE PathTo(_, _)
\* the predicates on the edges from the root down to x
PathTo(t, x) ==
    IF x = 0 THEN <<>>
    ELSE LET a == ParentOf(t, x)
         IN Append(PathTo(t, a),
                   <<t.feature[a],
                     IF x = t.children_left[a] THEN "<=" ELSE ">",
                     t.threshold[a]>>)

\* x comes before y in pre-order, left before right: x is a proper ancestor of
\* y, or x lies in the left and y in the right subtree of some node
PreOrderBefore(t, x, y) ==
    /\ x # y
    /\ \/ y \in Subtree(t, x)
       \/ \E a \in Internal(t) : /\ x \in Subtree(t, t.children_left[a])
                                 /\ y \in Subtree(t, t.children_right[a])

\* the i-th leaf from the left
LeafAt(t, i) ==
    CHOOSE l \in Leaves(t) :
        Cardinality({m \in Leaves(t) : PreOrderBefore(t, m, l)}) = i - 1

\* the data-model invariant on sample counts
SampleInvariant(t) ==
    \A a \in Internal(t) :
        t.n_node_samples[a] = t.n_node_samples[t.children_left[a]]
                              + t.n_node_samples[t.children_right[a]]

BranchSamples(branches) == [i \in 1 .. Len(branches) |-> branches[i].samples]
SplitSamples(splits) == [i \in 1 .. Len(splits) |-> splits[i].samples]

Analyzed == tpc = "analyzed"

-----------------------------------------------------------------------------
(* Claims about get_dt_info *)

C2_OneBranchPerLeaf ==
    (Analyzed /\ SampleInvariant(dt)) =>
        /\ Len(info.branches) = Cardinality(Leaves(dt))
        /\ \A l \in Leaves(dt) :
              Cardinality({i \in 1 .. Len(info.branches) :
                              /\ LeafOfBranch(dt, info.branches[i]) = l
                              /\ info.branches[i].samples = dt.n_node_samples[l]}) = 1
        /\ SumSeq(BranchSamples(info.branches)) = dt.n_node_samples[0]

C2_Witness == Analyzed /\ SampleInvariant(dt) /\ Len(info.branches) >= 3

\* C7: analysing a tree whose root is a leaf returns exactly one branch with
\* an empty path, no splits and no feature usage.
C7_SingleLeaf ==
    (Analyzed /\ IsLeaf(dt, 0)) =>
        /\ Len(info.branches) = 1
        /\ info.branches[1].path = <<>>
        /\ info.splits = <<>>
        /\ info.features_used = <<>>

C7_Witness == Analyzed /\ IsLeaf(dt, 0) /\ Len(info.branches) = 1

\* C10: the splits are listed in pre-order of the internal nodes (left before
\* right), the branches in left-to-right order of the leaves, and each
\* branch's path is the sequence of predicates on its root-to-leaf path,
\* (feature, <=, threshold) on a left edge and (feature, >, threshold) on a
\* right edge, so that its length is the leaf's depth.
C10_PreOrder ==
    Analyzed =>
        /\ Len(info.splits) = Cardinality(Internal(dt))
        /\ {info.splits[i].idx : i \in 1 .. Len(info.splits)} = Internal(dt)
        /\ \A i, j \in 1 .. Len(info.splits) :
              i < j => PreOrderBefore(dt, info.splits[i].idx, info.splits[j].idx)
        /\ Len(info.branches) = Cardinality(Leaves(dt))
        /\ \A i \in 1 .. Len(info.branches) :
              /\ info.branches[i].path = PathTo(dt, LeafAt(dt, i))
              /\ Len(info.branches[i].path) = Depth(dt, LeafAt(dt, i))
              /\ info.branches[i].samples = dt.n_node_samples[LeafAt(dt, i)]

\* a tree with a split below a left edge and leaves at different depths
C10_Witness ==
    /\ Analyzed
    /\ Len(info.splits) >= 2
    /\ \E i \in 1 .. Len(info.branches) :
          /\ Len(info.branches[i].path) = 2
          /\ info.branches[i].path[1][2] = "<="
          /\ info.branches[i].path[2][2] = ">"

\* the internal nodes that test feature f
SplitsOn(t, f) == {a \in Internal(t) : t.feature[a] = f}

FeatureCounts(fu) == [i \in 1 .. Len(fu) |-> fu[i].count]

\* C11: features_used has an entry exactly for the features tested by some
\* internal node; the entry's count is the number of internal nodes splitting
\* on the feature and its samples the sum of those nodes' sample counts; the
\* counts sum to the number of splits recorded, the number of branches minus one.
C11_FeatureUsage ==
    Analyzed =>
        /\ {info.features_used[i].feature : i \in 1 .. Len(info.features_used)}
              = {dt.feature[a] : a \in Internal(dt)}
        /\ \A i, j \in 1 .. Len(info.features_used) :
              info.features_used[i].feature = info.features_used[j].feature => i = j
        /\ \A i \in 1 .. Len(info.features_used) :
              LET e == info.features_used[i]
              IN /\ e.count = Cardinality(SplitsOn(dt, e.feature))
                 /\ e.samples = SumOver(dt.n_node_samples, SplitsOn(dt, e.feature))
        /\ SumSeq(FeatureCounts(info.features_used)) = Len(info.splits)
        /\ Len(info.splits) = Len(info.branches) - 1

\* a tree with two splits on the same feature
C11_Witness ==
    /\ Analyzed
    /\ \E i \in 1 .. Len(info.features_used) :
          /\ info.features_used[i].count = 2
          /\ info.features_used[i].samples > dt.n_node_samples[0]

-----------------------------------------------------------------------------
(* Claims about prune *)

\* C8: prune(tree, top_k = k) with 1 <= k <= number of leaves returns a tree
\* in which, for each of the k top-ranked branches of the input, a leaf is
\* reached by exactly that branch's predicate path, and whose root class
\* vector is the input tree's root class vector.
C8_PruneKeepsTopBranches ==
    (tpc = "pruned" /\ top_k >= 1 /\ top_k <= Cardinality(Leaves(dt))) =>
        /\ \A i \in 1 .. Len(info.branches) :
              (Cardinality({j \in 1 .. Len(info.branches) :
                    \/ info.branches[j].samples > info.branches[i].samples
                    \/ /\ info.branches[j].samples = info.branches[i].samples
                       /\ LeafOfBranch(dt, info.branches[j])
                            < LeafOfBranch(dt, info.branches[i])}) < top_k)
              => LET x == FollowPath(pruned, 0, info.branches[i].path)
                 IN x \in Nodes(pruned) /\ IsLeaf(pruned, x)
        /\ pruned.value[0] = dt.value[0]

\* a pruning that collapses a subtree and keeps a selected branch below the root
C8_Witness ==
    /\ tpc = "pruned"
    /\ top_k >= 1
    /\ pruned.node_count < dt.node_count
    /\ pruned.node_count >= 3

-----------------------------------------------------------------------------
(* Claims about fit and explain *)

FitOver == fpc \in {"fitted", "explained", "NoCandidateError"}
Succeeding == {i \in 0 .. (num_iterations - 1) : outcome[i] # OracleRaises}

\* C5: explain() returns the history entry of maximum reward and, among the
\* entries of that reward, the one of lowest iteration index, whatever the
\* order in which the iterations completed.
C5_ExplainBest ==
    fpc = "explained" =>
        /\ \E k \in 1 .. Len(history) : history[k] = explained
        /\ \A k \in 1 .. Len(history) :
              \/ history[k].reward < explained.reward
              \/ history[k].reward = explained.reward /\ history[k].idx >= explained.idx

\* two iterations tie for the best reward and the later one completed first
C5_Witness ==
    /\ fpc = "explained"
    /\ \E j, k \in 1 .. Len(history) :
          /\ j < k
          /\ history[j].idx > history[k].idx
          /\ history[j].reward = history[k].reward
          /\ history[k] = explained

C6_WitnessOnlyIteration ==
    /\ fpc = "NoCandidateError"
    /\ num_iterations = 1

-----------------------------------------------------------------------------
(* Claims about trust_report *)

Min(a, b) == IF a < b THEN a ELSE b

ReportOver == rpc \in {"returned", "raised"}

\* the ablation loop was reached: the first extraction succeeded and line 264
\* chose the first feature to remove
LoopReached == top_feature_to_remove # -1

CompletePair == given["X"] /\ given["y"]
CompleteQuadruple == given["X_train"] /\ given["X_test"] /\ given["y_train"] /\ given["y_test"]

\* C3: the ablation loop on a dataset of n features with bound max_iter
\* terminates normally after exactly min(max_iter, n) rounds, with exactly
\* that many ablation records.
C3_LoopRunsMinRounds ==
    (ReportOver /\ LoopReached) =>
        /\ rpc = "returned"
        /\ err = "none"
        /\ it = Min(max_iter, ReportFeatures)
        /\ Len(whitebox_iter) = Min(max_iter, ReportFeatures)

\* C3, the scenario: with max_iter above the number of features, the run that
\* ablates every feature returns without raising.
C3_AllFeaturesAblatedReturns ==
    (ReportOver /\ LoopReached /\ max_iter > ReportFeatures
        /\ n_features_removed = ReportFeatures) => rpc = "returned"

\* C3, what the code does instead: a call that reaches the loop returns only
\* when max_iter stops it before every feature is ablated; once all columns
\* are zero the extracted tree is a single leaf and line 313 raises.
C3_ReturnsOnlyBelowCap ==
    (rpc = "returned" /\ LoopReached) =>
        /\ max_iter < ReportFeatures
        /\ Len(whitebox_iter) = max_iter

\* C4: feature ablation never mutates the dataset supplied by the caller:
\* the caller's X, X_train and X_test hold the same values as before the call.
C4_CallerDataUntouched ==
    \A o \in {"X", "X_train", "X_test"} : heap[o] = caller_data[o]

\* C9: trust_report raises ValueError at the argument check whenever the
\* caller passed neither the complete pair (X, y) nor the complete quadruple
\* (X_train, X_test, y_train, y_test); no such call gets past the check.
C9_IncompleteArgumentsRejected ==
    (rpc # "check" /\ ~CompletePair /\ ~CompleteQuadruple) =>
        (rpc = "raised" /\ err = "ValueError")

\* the tree extracted just before round k (rounds counted from 1): the first
\* extraction's, or the one recorded by round k - 1
TreeBeforeRound(k) == IF k = 1 THEN first_dt ELSE whitebox_iter[k - 1].dt

\* column f of matrix m is zero in every row
ColumnZero(m, f) == \A r \in DOMAIN m : m[r][f + 1] = 0

\* C12: in every state of the ablation loop, each round has zeroed the
\* feature with the largest cumulative sample count in the tree extracted
\* just before it, a feature no earlier round zeroed, and zeroed columns are
\* still zero; the n_features_removed of each record is its iteration index
\* plus one and the number of distinct features ablated so far.
C12_AblationRounds ==
    LoopReached =>
        /\ n_features_removed = Len(whitebox_iter)
        /\ \A k \in 1 .. Len(whitebox_iter) :
              LET r  == whitebox_iter[k]
                  fu == get_dt_info(TreeBeforeRound(k)).features_used
              IN /\ \E i \in 1 .. Len(fu) :
                        /\ fu[i].feature = r.feature_removed
                        /\ \A j \in 1 .. Len(fu) : fu[j].samples <= fu[i].samples
                 /\ \A j \in 1 .. (k - 1) :
                        whitebox_iter[j].feature_removed # r.feature_removed
                 /\ ColumnZero(heap[X_train], r.feature_removed)
                 /\ ColumnZero(heap[X_test], r.feature_removed)
                 /\ r.it = k - 1
                 /\ r.n_features_removed = r.it + 1
                 /\ r.n_features_removed
                        = Cardinality({whitebox_iter[j].feature_removed : j \in 1 .. k})

\* two rounds, the first of which zeroed a feature that is not the one the
\* root of the first tree tests
C12_Witness ==
    /\ LoopReached
    /\ Len(whitebox_iter) >= 2
    /\ whitebox_iter[1].feature_removed # first_dt.feature[0]
    /\ whitebox_iter[2].feature_removed = first_dt.feature[0]

====
